---- MODULE Spec2Model ----
(***************************************************************************)
(* Model of the pronunciation-practice web application (src/app.py) and    *)
(* its AI companion blueprint (src/ai_app.py).                             *)
(*                                                                         *)
(* A text is modelled by what the code reads of it: the number of          *)
(* whitespace-separated words it has.  [w, s] is a text with w words that  *)
(* hold some character other than "*" and s words made of "*" only, so     *)
(* that len(text.split()) = w + s and text.replace("*", "") has w words.   *)
(***************************************************************************)
EXTENDS Integers, Sequences, FiniteSets, TLC

VARIABLES
    \* ---- call_gemini_api (src/ai_app.py:169-218), one call in progress
    g_pc,          \* "idle" | "attempt" | "returned" | "raised"
    g_retries,     \* parameter retries
    g_backoff,     \* parameter backoff, in seconds
    g_messages,    \* parameter message_list: the turns of the prompt
    g_attempt,     \* loop variable attempt
    g_log,         \* outcome of every requests.post made, in order
    g_sleeps,      \* argument of every time.sleep made, in order
    g_last_exc,    \* local last_exc
    g_result,      \* the text returned, or the exception raised
    \* ---- _truncate_history called on its own (src/ai_app.py:233-242)
    t_pc,          \* "input" | "done"
    t_in,          \* argument messages
    t_out,         \* the list returned
    \* ---- POST /aicompanion/process_audio (src/ai_app.py:71-140), one session
    session_history,  \* session["history"]
    pa_pc,         \* "idle" | "saved" | "transcoded" | "calling" | "done"
    pa_req,        \* number of requests started
    pa_history,    \* local history
    pa_transcript, \* local transcript
    pa_response,   \* the response of the request: status and body
    tmp_files,     \* files in AI_TMP_FOLDER, as <<request, suffix>>
    audio_files,   \* reply files in AI_UPLOAD_FOLDER, by request
    \* ---- POST /aicompanion/cleanup_audio (src/ai_app.py:144-166)
    fs,            \* the files that exist, each [dir, name]
    cl_filename,   \* "filename" of the request's payload
    cl_response,   \* the request's response, None until it is handled
    cl_deleted,    \* the files the request unlinked
    \* ---- progress entries (src/app.py:192-194, 277-330)
    PROGRESS_CACHE,   \* user id -> list of entries, a key per user saved for
    FIRESTORE_CLIENT, \* None, or the client of the document store
    store_sessions,   \* the store: user id -> entries of users/<id>/sessions
    saved,            \* every entry save_progress_entry built, per user, in order
    save_raised,      \* whether the last save_progress_entry call raised
    fetched,          \* the last fetch_progress_entries call: its arguments and
                      \* the list it returned; None when there is none
    \* ---- the user table (src/app.py:68-171, 577-795), a request per thread
    USERS,         \* USERS: email in lower case -> record
    store_users,   \* the store: document id -> document of the users collection
    th_pc,         \* per thread: "idle" | "apply"
    th_req,        \* per thread: the locals of the update or delete under way
    th_flash,      \* per thread: what its last request flashed or answered
    \* ---- load_model and POST /transcribe (src/app.py:189, 434-439, 476-547),
    \* ---- one request per thread at a time
    _MODEL,        \* the global _MODEL: None, or the instance loaded
    model_loads,   \* number of instances whisper.load_model has built
    tr_started,    \* number of requests started
    tr_pc,         \* per thread: "idle" | "load_model" | "lm_load" | "lm_store"
                   \*             | "lm_return" | "transcribe" | "done"
    tr_user,       \* per thread: current_user.id
    tr_temp,       \* per thread: local temp_path
    tr_loaded,     \* per thread: the instance its whisper.load_model call built
    tr_model,      \* per thread: local model, what load_model returned
    tr_written,    \* per thread: how the store write of its save went
    tr_entry,      \* per thread: id of the progress entry its save built
    tr_response,   \* per thread: the response of the request
    temp_files,    \* the files NamedTemporaryFile made that still exist
    \* ---- calculate_similarity called on its own (src/app.py:442-454)
    sim_pc,        \* "idle" | "input" | "done"
    sim_reference, \* argument reference, a string
    sim_attempt,   \* argument attempt, a string
    sim_score,     \* the score returned, in hundredths
    \* ---- synthesize_conversational called on its own (src/ai_app.py:222-231)
    sy_pc,         \* "idle" | "input" | "done"
    sy_text,       \* argument text, a string
    sy_tts,        \* the texts handed to gTTS, in order
    sy_saved       \* whether the reply file was written

gvars == <<g_pc, g_retries, g_backoff, g_messages, g_attempt, g_log, g_sleeps,
          g_last_exc, g_result>>
tvars == <<t_pc, t_in, t_out>>
pvars == <<session_history, pa_pc, pa_req, pa_history, pa_transcript, pa_response,
          tmp_files, audio_files>>
clvars == <<fs, cl_filename, cl_response, cl_deleted>>
prvars == <<PROGRESS_CACHE, FIRESTORE_CLIENT, store_sessions, saved, save_raised>>
fvars == <<fetched>>
avars == <<USERS, store_users, th_pc, th_req, th_flash>>
trvars == <<_MODEL, model_loads, tr_started, tr_pc, tr_user, tr_temp, tr_loaded,
           tr_model, tr_written, tr_entry, tr_response, temp_files>>

simvars == <<sim_pc, sim_reference, sim_attempt, sim_score>>
syvars == <<sy_pc, sy_text, sy_tts, sy_saved>>

\* The variables of the pure functions called on their own
fnvars == <<simvars, syvars>>

\* The variables of the other requests of app.py
appvars == <<fvars, avars>>

vars == <<gvars, tvars, pvars, clvars, prvars, trvars, fnvars, appvars>>

None == [type |-> "None"]

ErrorResponse(status, error) == [status |-> status, error |-> error]

\* ------------------------------------------------------------------------
\* Texts and conversation turns
\* ------------------------------------------------------------------------

Text(w, s) == [w |-> w, s |-> s]

\* len(text.split())
WordCount(text) == text.w + text.s

\* text.replace("*", "")
StripStars(text) == [w |-> text.w, s |-> 0]

Turn(author, text) == [author |-> author, text |-> text]

\* ------------------------------------------------------------------------
\* _truncate_history
\* ------------------------------------------------------------------------

WordBudget == 3000

\* A mutant of the loop's guard: the words kept so far are not counted.
TruncateBreaksOnEntryMutant(total_words, words, trimmed) ==
    words > WordBudget /\ trimmed # <<>>

\* A mutant of the loop's guard: the "and trimmed" test is lost.
TruncateBreaksMutant(total_words, words, trimmed) == total_words + words > WordBudget

\* The break test of the loop: the budget is exceeded and something is kept.
TruncateBreaks(total_words, words, trimmed) ==
    total_words + words > WordBudget /\ trimmed # <<>>

\* The loop over reversed(messages): i is the index of the entry looked at,
\* trimmed holds the entries kept so far, newest first.
RECURSIVE TruncateLoop(_, _, _, _)
TruncateLoop(messages, i, total_words, trimmed) ==
    IF i = 0 THEN trimmed
    ELSE LET entry == messages[i]
             words == WordCount(entry.text)
         IN  IF TruncateBreaks(total_words, words, trimmed) THEN trimmed
             ELSE TruncateLoop(messages, i - 1, total_words + words,
                               Append(trimmed, entry))

\* list(reversed(xs))
Reversed(xs) == [i \in 1..Len(xs) |-> xs[Len(xs) + 1 - i]]

_truncate_history(messages) ==
    Reversed(TruncateLoop(messages, Len(messages), 0, <<>>))

TruncateIdle ==
    /\ t_pc = "idle"
    /\ t_in = <<>>
    /\ t_out = <<>>

\* The call and its result
TruncateApply ==
    /\ t_pc = "input"
    /\ t_out' = _truncate_history(t_in)
    /\ t_pc' = "done"
    /\ UNCHANGED t_in

\* ------------------------------------------------------------------------
\* call_gemini_api
\* ------------------------------------------------------------------------

DefaultRetries == 3
DefaultBackoff == 1

\* HTTP error statuses raise_for_status turns into HTTPError
HttpErrorStatuses == {500, 503}
TransientStatus == 503

\* The texts a reply may carry
ReplyTexts == {Text(20, 0), Text(1, 1)}

\* What one requests.post and the parsing of its response come to:
\*   http      raise_for_status raises HTTPError with that status
\*   exc       any other exception (timeout, connection error, bad JSON)
\*   response  a 2xx response with `candidates` candidates, the first of which
\*             parses to `text`
Outcomes ==
    {[kind |-> "http", status |-> s] : s \in HttpErrorStatuses}
    \cup {[kind |-> "exc"]}
    \cup {[kind |-> "response", candidates |-> 0]}
    \cup {[kind |-> "response", candidates |-> 1, text |-> t] : t \in ReplyTexts}

NoCandidates(out) == out.kind = "response" /\ out.candidates = 0
Success(out) == out.kind = "response" /\ out.candidates > 0

\* The exception an outcome raises inside the try block
ErrorOf(out) ==
    IF out.kind = "http" THEN [type |-> "HTTPError", status |-> out.status]
    ELSE IF NoCandidates(out) THEN [type |-> "RuntimeError", text |-> "No response from Gemini API"]
    ELSE [type |-> "Exception"]

\* A mutant of the HTTPError handler: every status is retried.
RetriesAfterAnyStatusMutant(out, attempt, retries) == attempt < retries

\* A mutant of the handlers: the last attempt is retried too.
RetriesAfterMutant(out, attempt, retries) ==
    IF out.kind = "http"
    THEN out.status = TransientStatus /\ attempt <= retries
    ELSE attempt <= retries

\* Whether the except clauses sleep and continue after this failed attempt
RetriesAfter(out, attempt, retries) ==
    IF out.kind = "http"
    THEN out.status = TransientStatus /\ attempt < retries
    ELSE attempt < retries

\* A mutant of the sleep: the exponent is off by one.
SleepTimeMutant(backoff, attempt) == backoff * (2 ^ attempt)

\* backoff * (2 ** (attempt - 1))
SleepTime(backoff, attempt) == backoff * (2 ^ (attempt - 1))

\* The call starts: the loop is entered with attempt = 1.
GeminiCall(messages, retries, backoff) ==
    /\ g_pc' = "attempt"
    /\ g_retries' = retries
    /\ g_backoff' = backoff
    /\ g_messages' = messages
    /\ g_attempt' = 1
    /\ g_log' = <<>>
    /\ g_sleeps' = <<>>
    /\ g_last_exc' = None
    /\ g_result' = None

\* One iteration of the loop: the request, and the handling of its outcome.
GeminiAttempt ==
    /\ g_pc = "attempt"
    /\ g_attempt <= g_retries
    /\ \E out \in Outcomes :
        /\ g_log' = Append(g_log, out)
        /\ IF Success(out)
           THEN /\ g_pc' = "returned"
                /\ g_result' = [kind |-> "return", text |-> out.text]
                /\ UNCHANGED <<g_attempt, g_sleeps, g_last_exc>>
           ELSE IF RetriesAfter(out, g_attempt, g_retries)
           THEN /\ g_last_exc' = ErrorOf(out)
                /\ g_sleeps' = Append(g_sleeps, SleepTime(g_backoff, g_attempt))
                /\ g_attempt' = g_attempt + 1
                /\ UNCHANGED <<g_pc, g_result>>
           ELSE /\ g_last_exc' = ErrorOf(out)
                /\ g_pc' = "raised"
                /\ g_result' = [kind |-> "raise", error |-> ErrorOf(out)]
                /\ UNCHANGED <<g_attempt, g_sleeps>>
    /\ UNCHANGED <<g_retries, g_backoff, g_messages>>

\* The loop has ended without a return or a raise: last_exc is raised when
\* there is one, the RuntimeError otherwise.
GeminiLoopEnd ==
    /\ g_pc = "attempt"
    /\ g_attempt > g_retries
    /\ g_pc' = "raised"
    /\ g_result' = [kind |-> "raise",
                    error |-> IF g_last_exc # None THEN g_last_exc
                              ELSE [type |-> "RuntimeError",
                                    text |-> "Gemini API call failed"]]
    /\ UNCHANGED <<g_retries, g_backoff, g_messages, g_attempt, g_log, g_sleeps,
                   g_last_exc>>

GeminiIdle ==
    /\ g_pc = "idle"
    /\ g_retries = DefaultRetries
    /\ g_backoff = DefaultBackoff
    /\ g_messages = <<>>
    /\ g_attempt = 0
    /\ g_log = <<>>
    /\ g_sleeps = <<>>
    /\ g_last_exc = None
    /\ g_result = None

\* ------------------------------------------------------------------------
\* process_audio
\* ------------------------------------------------------------------------

\* The default AI_SYSTEM_PROMPT, "You are restricted to respond in 20 words."
SystemPrompt == Text(8, 0)
system_msg == Turn("system", SystemPrompt)

\* What recognize_google makes of the recording
UserTexts == {Text(2000, 0), Text(3001, 0)}
RecognizeOutcomes ==
    {[kind |-> "text", text |-> t] : t \in UserTexts}
    \cup {[kind |-> "UnknownValueError"], [kind |-> "RequestError"]}

MaxRequests == 3

ChatIdle ==
    /\ session_history = <<>>
    /\ pa_pc = "idle"
    /\ pa_req = 0
    /\ pa_history = <<>>
    /\ pa_transcript = None
    /\ pa_response = None
    /\ tmp_files = {}
    /\ audio_files = {}

\* Lines 76-91: the session's history is copied; without audio_data the
\* request ends with 400, else the upload is saved as <uuid>.webm.
PA_Begin ==
    /\ pa_pc \in {"idle", "done"}
    /\ pa_req < MaxRequests
    /\ pa_req' = pa_req + 1
    /\ pa_history' = session_history
    /\ pa_transcript' = None
    /\ \E has_audio \in BOOLEAN :
        IF has_audio
        THEN /\ tmp_files' = tmp_files \cup {<<pa_req', "webm">>}
             /\ pa_pc' = "saved"
             /\ pa_response' = None
        ELSE /\ pa_pc' = "done"
             /\ pa_response' = ErrorResponse(400, "No audio_data provided")
             /\ UNCHANGED tmp_files
    /\ UNCHANGED <<session_history, audio_files, gvars>>

\* Lines 93-96: ffmpeg writes <uuid>.wav, or fails.
PA_Transcode ==
    /\ pa_pc = "saved"
    /\ \E ok \in BOOLEAN :
        IF ok
        THEN /\ tmp_files' = tmp_files \cup {<<pa_req, "wav">>}
             /\ pa_pc' = "transcoded"
             /\ UNCHANGED pa_response
        ELSE /\ pa_pc' = "done"
             /\ pa_response' = ErrorResponse(500, "ffmpeg error")
             /\ UNCHANGED tmp_files
    /\ UNCHANGED <<session_history, pa_req, pa_history, pa_transcript, audio_files, gvars>>

\* Lines 98-113: the recognition; the user turn is appended and stored in the
\* session; the prompt is built and the remote call starts.
PA_Recognize ==
    /\ pa_pc = "transcoded"
    /\ \E r \in RecognizeOutcomes :
        IF r.kind = "RequestError"
        THEN /\ pa_pc' = "done"
             /\ pa_response' = ErrorResponse(500, "Speech recognition error")
             /\ UNCHANGED <<session_history, pa_history, pa_transcript, gvars>>
        ELSE LET transcript == IF r.kind = "text" THEN r.text ELSE Text(0, 0)
                 history == Append(pa_history, Turn("user", transcript))
             IN  /\ pa_transcript' = transcript
                 /\ pa_history' = history
                 /\ session_history' = history
                 /\ GeminiCall(_truncate_history(<<system_msg>> \o history),
                               DefaultRetries, DefaultBackoff)
                 /\ pa_pc' = "calling"
                 /\ UNCHANGED pa_response
    /\ UNCHANGED <<pa_req, tmp_files, audio_files>>

\* The locals of a finished call_gemini_api are gone.
GeminiForget ==
    /\ g_pc' = "idle"
    /\ g_retries' = DefaultRetries
    /\ g_backoff' = DefaultBackoff
    /\ g_messages' = <<>>
    /\ g_attempt' = 0
    /\ g_log' = <<>>
    /\ g_sleeps' = <<>>
    /\ g_last_exc' = None
    /\ g_result' = None

\* Lines 113-136: the reply is stored, the two temporary files are unlinked
\* and the reply is synthesized, which may fail.
PA_Reply ==
    /\ pa_pc = "calling"
    /\ g_pc = "returned"
    /\ LET response_text == StripStars(g_result.text)
           history == Append(pa_history, Turn("assistant", response_text))
       IN  /\ pa_history' = history
           /\ session_history' = history
           /\ tmp_files' = tmp_files \ {<<pa_req, "webm">>, <<pa_req, "wav">>}
           /\ \E synthesized \in BOOLEAN :
                IF synthesized
                THEN /\ audio_files' = audio_files \cup {pa_req}
                     /\ pa_response' = [status |-> 200,
                                         transcript |-> pa_transcript,
                                         response_text |-> response_text,
                                         audio_filename |-> pa_req]
                ELSE /\ pa_response' = ErrorResponse(500, "gTTS error")
                     /\ UNCHANGED audio_files
    /\ pa_pc' = "done"
    /\ GeminiForget
    /\ UNCHANGED <<pa_req, pa_transcript>>

\* Lines 138-140: the exception of the remote call ends the request with 500
\* and the exception's text.
PA_Fail ==
    /\ pa_pc = "calling"
    /\ g_pc = "raised"
    /\ pa_response' = ErrorResponse(500, g_result.error)
    /\ pa_pc' = "done"
    /\ GeminiForget
    /\ UNCHANGED <<session_history, pa_req, pa_history, pa_transcript, tmp_files,
                   audio_files>>

\* ------------------------------------------------------------------------
\* cleanup_audio
\* ------------------------------------------------------------------------

\* A filename is the sequence of its characters.
Mp3Suffix == <<".", "m", "p", "3">>

IsSpace(c) == c = " "

\* str.strip()
RECURSIVE LStrip(_)
LStrip(str) ==
    IF str # <<>> /\ IsSpace(Head(str)) THEN LStrip(Tail(str)) ELSE str

RECURSIVE RStrip(_)
RStrip(str) ==
    IF str # <<>> /\ IsSpace(str[Len(str)])
    THEN RStrip(SubSeq(str, 1, Len(str) - 1))
    ELSE str

Strip(str) == RStrip(LStrip(str))

\* os.path.basename: what follows the last "/"
RECURSIVE Basename(_)
Basename(path) ==
    IF \E i \in 1..Len(path) : path[i] = "/"
    THEN Basename(Tail(path))
    ELSE path

\* str.endswith
EndsWith(str, suffix) ==
    /\ Len(str) >= Len(suffix)
    /\ SubSeq(str, Len(str) - Len(suffix) + 1, Len(str)) = suffix

\* A mutant of the validation: the basename is not compared with the name.
InvalidFilenameMutant(original, filename) == ~EndsWith(filename, Mp3Suffix)

\* Line 156: the name has a directory part, or does not end in ".mp3"
InvalidFilename(original, filename) ==
    filename # original \/ ~EndsWith(filename, Mp3Suffix)

AudioFile(name) == [dir |-> "static/audio", name |-> name]

XMp3 == <<"x">> \o Mp3Suffix

\* The files at the start: replies in the audio folder, and a file above it
InitialFiles ==
    {AudioFile(XMp3), AudioFile(XMp3 \o <<" ">>), AudioFile(<<"x">>),
     [dir |-> "static", name |-> XMp3]}

CleanupIdle ==
    /\ fs = InitialFiles
    /\ cl_filename = <<>>
    /\ cl_response = None
    /\ cl_deleted = {}

FilenameChars == {"/", ".", "x", " "}
FilenameEndings == {<<>>, Mp3Suffix, Mp3Suffix \o <<" ">>, <<"m", "p", "3">>, <<".", "m", "p">>}
MaxStemLen == 4

Filenames ==
    {stem \o ending :
        stem \in UNION {[1..n -> FilenameChars] : n \in 0..MaxStemLen},
        ending \in FilenameEndings}

\* The whole handler, for a JSON payload whose "filename" is a string (or is
\* missing: the empty string).
CleanupAudio ==
    /\ cl_response = None
    /\ LET original == Strip(cl_filename)
           filename == Basename(original)
           file_path == AudioFile(filename)
       IN  IF original = <<>>
           THEN /\ cl_response' = ErrorResponse(400, "Filename required")
                /\ UNCHANGED <<fs, cl_deleted>>
           ELSE IF InvalidFilename(original, filename)
           THEN /\ cl_response' = ErrorResponse(400, "Invalid filename")
                /\ UNCHANGED <<fs, cl_deleted>>
           ELSE /\ cl_response' = [status |-> 200, body |-> "ok"]
                /\ cl_deleted' = fs \cap {file_path}
                /\ fs' = fs \ {file_path}
    /\ UNCHANGED cl_filename

\* ------------------------------------------------------------------------
\* save_progress_entry
\* ------------------------------------------------------------------------

Users == {"ana@example.com", "raj@example.com"}

ProgressCap == 100

\* A mutant of the trim: the oldest 100 entries are kept.
TrimHistoryMutant(history) ==
    IF Len(history) > ProgressCap THEN SubSeq(history, 1, ProgressCap) ELSE history

\* Lines 300-301: del history[:-100] when the list is longer than 100
TrimHistory(history) ==
    IF Len(history) > ProgressCap
    THEN SubSeq(history, Len(history) - ProgressCap + 1, Len(history))
    ELSE history

\* PROGRESS_CACHE.get(user_id, [])
CachedEntries(user_id) ==
    IF user_id \in DOMAIN PROGRESS_CACHE THEN PROGRESS_CACHE[user_id] ELSE <<>>

\* Lines 280-289: the entry, with a fresh id and the time of the call; the
\* n-th entry built for a user is numbered n.
NewEntry(user_id, content, transcript, score) ==
    [id |-> <<user_id, Len(saved[user_id]) + 1>>,
     target |-> content,
     transcript |-> transcript,
     score |-> score,
     created_at |-> Len(saved[user_id]) + 1]

\* What _get_firestore_client may return: the client it holds, or else what
\* init_firebase makes of this call (a client, or None again).
Client == [type |-> "Client"]
ClientOutcomes == IF FIRESTORE_CLIENT # None THEN {FIRESTORE_CLIENT} ELSE {None, Client}

\* A mutant of the handler of line 295: the failure of the write propagates.
WriteFailureRaisesMutant(written) == ~written

\* Lines 293-296: whether a failed write makes save_progress_entry raise
WriteFailureRaises(written) == FALSE

\* save_progress_entry(user_id, content, transcript, score), `client` being
\* what _get_firestore_client returns and `written` whether the set() of the
\* store succeeds.
save_progress_entry(user_id, content, transcript, score, client, written) ==
    IF user_id = ""
    THEN /\ save_raised' = FALSE
         /\ UNCHANGED <<PROGRESS_CACHE, FIRESTORE_CLIENT, store_sessions, saved>>
    ELSE LET entry == NewEntry(user_id, content, transcript, score) IN
         /\ saved' = [saved EXCEPT ![user_id] = Append(@, entry)]
         /\ FIRESTORE_CLIENT' = client
         /\ store_sessions' =
                IF client # None /\ written
                THEN [store_sessions EXCEPT ![user_id] = @ \cup {entry}]
                ELSE store_sessions
         /\ IF client # None /\ WriteFailureRaises(written)
            THEN /\ save_raised' = TRUE
                 /\ UNCHANGED PROGRESS_CACHE
            ELSE /\ save_raised' = FALSE
                 /\ PROGRESS_CACHE' =
                        [u \in DOMAIN PROGRESS_CACHE \cup {user_id} |->
                            IF u = user_id
                            THEN TrimHistory(Append(CachedEntries(user_id), entry))
                            ELSE PROGRESS_CACHE[u]]

\* The process has started: the cache is empty, and the client is there or
\* not according to what init_firebase made of the start-up call of line 258.
ProgressStart(client) ==
    /\ PROGRESS_CACHE = [u \in {} |-> <<>>]
    /\ FIRESTORE_CLIENT = client
    /\ store_sessions = [u \in Users |-> {}]
    /\ saved = [u \in Users |-> <<>>]
    /\ save_raised = FALSE

ProgressIdle == ProgressStart(None)

\* ------------------------------------------------------------------------
\* fetch_progress_entries
\* ------------------------------------------------------------------------

\* The entries of a set, the one created last first
RECURSIVE NewestFirst(_)
NewestFirst(entries) ==
    IF entries = {} THEN <<>>
    ELSE LET newest == CHOOSE e \in entries :
                           \A o \in entries : o.created_at <= e.created_at
         IN  <<newest>> \o NewestFirst(entries \ {newest})

\* list[:limit]
FirstN(list, limit) == SubSeq(list, 1, IF Len(list) < limit THEN Len(list) ELSE limit)

\* Lines 311-317: order_by("created_at", DESCENDING).limit(limit)
SessionsQuery(user_id, limit) == FirstN(NewestFirst(store_sessions[user_id]), limit)

\* Lines 327-328: the entries of the cache, newest first, cut to the limit
Fallback(user_id, limit) ==
    LET fallback == CachedEntries(user_id)
    IN  FirstN(NewestFirst({fallback[i] : i \in 1..Len(fallback)}), limit)

\* fetch_progress_entries(user_id, limit), `client` being what
\* _get_firestore_client returns and `streamed` the number of documents the
\* query delivers: all of them, or those before the stream raises.
fetch_progress_entries(user_id, limit, client, streamed) ==
    LET entries == IF client # None
                   THEN SubSeq(SessionsQuery(user_id, limit), 1, streamed)
                   ELSE <<>>
    IN  /\ FIRESTORE_CLIENT' = client
        /\ fetched' = [user_id |-> user_id, limit |-> limit,
                       entries |-> IF entries = <<>> THEN Fallback(user_id, limit)
                                   ELSE entries]
        /\ UNCHANGED <<PROGRESS_CACHE, store_sessions, saved, save_raised>>

FetchIdle == fetched = None

\* ------------------------------------------------------------------------
\* load_model and transcribe
\* ------------------------------------------------------------------------

Threads == {"t1", "t2"}

Target == "She sells seashells by the seashore."

\* What model.transcribe returns, with the score calculate_similarity gives it
Transcriptions ==
    {[transcript |-> "she sells seashells by the seashore", score |-> 100],
     [transcript |-> "", score |-> 0]}

\* The n-th instance whisper.load_model builds, the n-th temporary file made
Whisper(n) == [type |-> "Whisper", n |-> n]
TempFile(n) == [type |-> "file", n |-> n]

TranscribeIdle ==
    /\ _MODEL = None
    /\ model_loads = 0
    /\ tr_started = 0
    /\ tr_pc = [t \in Threads |-> "idle"]
    /\ tr_user = [t \in Threads |-> ""]
    /\ tr_temp = [t \in Threads |-> None]
    /\ tr_loaded = [t \in Threads |-> None]
    /\ tr_model = [t \in Threads |-> None]
    /\ tr_written = [t \in Threads |-> "no call"]
    /\ tr_entry = [t \in Threads |-> <<>>]
    /\ tr_response = [t \in Threads |-> None]
    /\ temp_files = {}

\* Lines 540-547: the finally clause unlinks temp_path when it is set.
Finally(t) ==
    temp_files' = IF tr_temp[t] # None THEN temp_files \ {tr_temp[t]} ELSE temp_files

\* The request ends with `response`, through the finally clause.
TR_End(t, response) ==
    /\ tr_response' = [tr_response EXCEPT ![t] = response]
    /\ tr_pc' = [tr_pc EXCEPT ![t] = "done"]
    /\ Finally(t)

TranscriptionFailed(text) ==
    [status |-> 500, error |-> "Transcription failed.", details |-> text]

MaxTranscribes == 2

\* Lines 478-511: a request of a logged-in user arrives on a free thread; it
\* is refused when a field is missing or wrong, else the temporary file is
\* made and the upload saved to it, which may fail.
TR_Begin(t) ==
    /\ tr_pc[t] \in {"idle", "done"}
    /\ tr_started < MaxTranscribes
    /\ tr_started' = tr_started + 1
    /\ tr_loaded' = [tr_loaded EXCEPT ![t] = None]
    /\ tr_model' = [tr_model EXCEPT ![t] = None]
    /\ tr_written' = [tr_written EXCEPT ![t] = "no call"]
    /\ tr_entry' = [tr_entry EXCEPT ![t] = <<>>]
    /\ \E user \in Users, valid \in BOOLEAN, stored \in BOOLEAN :
        /\ tr_user' = [tr_user EXCEPT ![t] = user]
        /\ IF ~valid
           THEN /\ stored
                /\ tr_response' = [tr_response EXCEPT ![t] =
                                      ErrorResponse(400, "No audio file provided.")]
                /\ tr_pc' = [tr_pc EXCEPT ![t] = "done"]
                /\ tr_temp' = [tr_temp EXCEPT ![t] = None]
                /\ UNCHANGED temp_files
           ELSE IF stored
           THEN /\ temp_files' = temp_files \cup {TempFile(tr_started')}
                /\ tr_temp' = [tr_temp EXCEPT ![t] = TempFile(tr_started')]
                /\ tr_response' = [tr_response EXCEPT ![t] = None]
                /\ tr_pc' = [tr_pc EXCEPT ![t] = "load_model"]
           ELSE /\ temp_files' = temp_files \cup {TempFile(tr_started')}
                /\ tr_temp' = [tr_temp EXCEPT ![t] = None]
                /\ tr_response' = [tr_response EXCEPT ![t] = TranscriptionFailed("save")]
                /\ tr_pc' = [tr_pc EXCEPT ![t] = "done"]
    /\ UNCHANGED <<_MODEL, model_loads, prvars>>

\* Line 436: the test of _MODEL
LM_Check(t) ==
    /\ tr_pc[t] = "load_model"
    /\ tr_pc' = [tr_pc EXCEPT ![t] = IF _MODEL = None THEN "lm_load" ELSE "lm_return"]
    /\ UNCHANGED <<_MODEL, model_loads, tr_started, tr_user, tr_temp, tr_loaded,
                   tr_model, tr_written, tr_entry, tr_response, temp_files, prvars>>

\* Lines 437-438: whisper.load_model builds an instance, or raises
LM_Load(t) ==
    /\ tr_pc[t] = "lm_load"
    /\ \E loaded \in BOOLEAN :
        IF loaded
        THEN /\ model_loads' = model_loads + 1
             /\ tr_loaded' = [tr_loaded EXCEPT ![t] = Whisper(model_loads')]
             /\ tr_pc' = [tr_pc EXCEPT ![t] = "lm_store"]
             /\ UNCHANGED <<tr_response, temp_files>>
        ELSE /\ TR_End(t, TranscriptionFailed("load_model"))
             /\ UNCHANGED <<model_loads, tr_loaded>>
    /\ UNCHANGED <<_MODEL, tr_started, tr_user, tr_temp, tr_model, tr_written,
                   tr_entry, prvars>>

\* Line 438: the assignment to the global
LM_Store(t) ==
    /\ tr_pc[t] = "lm_store"
    /\ _MODEL' = tr_loaded[t]
    /\ tr_pc' = [tr_pc EXCEPT ![t] = "lm_return"]
    /\ UNCHANGED <<model_loads, tr_started, tr_user, tr_temp, tr_loaded, tr_model,
                   tr_written, tr_entry, tr_response, temp_files, prvars>>

\* Line 439: return _MODEL, a read of the global
LM_Return(t) ==
    /\ tr_pc[t] = "lm_return"
    /\ tr_model' = [tr_model EXCEPT ![t] = _MODEL]
    /\ tr_pc' = [tr_pc EXCEPT ![t] = "transcribe"]
    /\ UNCHANGED <<_MODEL, model_loads, tr_started, tr_user, tr_temp, tr_loaded,
                   tr_written, tr_entry, tr_response, temp_files, prvars>>

\* Lines 514-547: the transcription, which may raise; the score; the progress
\* entry, whose failure is logged; the response; the finally clause.
TR_Transcribe(t) ==
    /\ tr_pc[t] = "transcribe"
    /\ \/ /\ TR_End(t, TranscriptionFailed("transcribe"))
          /\ UNCHANGED <<tr_written, tr_entry, prvars>>
       \/ \E r \in Transcriptions, client \in ClientOutcomes, written \in BOOLEAN :
            /\ client = None => written
            /\ save_progress_entry(tr_user[t], Target, r.transcript, r.score,
                                   client, written)
            /\ tr_written' = [tr_written EXCEPT ![t] =
                                 IF client = None THEN "no client"
                                 ELSE IF written THEN "written" ELSE "failed"]
            /\ tr_entry' = [tr_entry EXCEPT ![t] =
                               NewEntry(tr_user[t], Target, r.transcript, r.score).id]
            /\ TR_End(t, [status |-> 200, transcript |-> r.transcript,
                          target |-> Target, score |-> r.score])
    /\ UNCHANGED <<_MODEL, model_loads, tr_started, tr_user, tr_temp, tr_loaded,
                   tr_model>>

\* ------------------------------------------------------------------------
\* normalize_text and calculate_similarity
\* ------------------------------------------------------------------------

\* A string is the sequence of its characters.  str.lower() on the letters
\* the model draws from.
LowerOf == [c \in {"A", "B"} |-> IF c = "A" THEN "a" ELSE "b"]
Lower(c) == IF c \in DOMAIN LowerOf THEN LowerOf[c] ELSE c

\* The characters of the class [a-z0-9] that the model draws from
WordChars == {"a", "b", "7"}

\* re.sub(r"[^a-z0-9\s]", " ", value.lower())
Cleaned(value) ==
    [i \in 1..Len(value) |->
        LET c == Lower(value[i])
        IN  IF c \in WordChars \/ IsSpace(c) THEN c ELSE " "]

\* str.split(): the words between runs of whitespace.  The string is cut at
\* the whitespace character nearest to its middle, and the words of the two
\* halves are put together.
Distance(i, j) == IF i < j THEN j - i ELSE i - j

RECURSIVE Split(_)
Split(str) ==
    LET spaces == {i \in 1..Len(str) : IsSpace(str[i])}
        middle == (Len(str) + 1) \div 2
    IN  IF spaces = {}
        THEN IF str = <<>> THEN <<>> ELSE <<str>>
        ELSE LET cut == CHOOSE i \in spaces :
                            \A j \in spaces : Distance(i, middle) <= Distance(j, middle)
             IN  Split(SubSeq(str, 1, cut - 1)) \o Split(SubSeq(str, cut + 1, Len(str)))

\* " ".join(words)
RECURSIVE Join(_)
Join(words) ==
    IF words = <<>> THEN <<>>
    ELSE IF Len(words) = 1 THEN words[1]
    ELSE LET half == Len(words) \div 2
         IN  Join(SubSeq(words, 1, half)) \o <<" ">>
             \o Join(SubSeq(words, half + 1, Len(words)))

normalize_text(value) == Join(Split(Cleaned(value)))

\* difflib.SequenceMatcher without junk, positions counted from 1 and ranges
\* [lo, hi).  The length of the common run of a from i and of b from j.
RECURSIVE RunLength(_, _, _, _, _, _)
RunLength(a, b, i, j, ahi, bhi) ==
    IF i < ahi /\ j < bhi /\ a[i] = b[j]
    THEN 1 + RunLength(a, b, i + 1, j + 1, ahi, bhi)
    ELSE 0

\* SequenceMatcher.find_longest_match: <<i, j, k>> for the longest block
\* a[i..i+k) = b[j..j+k), the one that starts earliest in a and, of those,
\* earliest in b; <<alo, blo, 0>> when nothing matches.
find_longest_match(a, b, alo, ahi, blo, bhi) ==
    LET blocks == {<<i, j, RunLength(a, b, i, j, ahi, bhi)>> :
                      i \in alo..(ahi - 1), j \in blo..(bhi - 1)}
        longest == {m \in blocks : m[3] > 0 /\ \A o \in blocks : o[3] <= m[3]}
    IN  IF longest = {} THEN <<alo, blo, 0>>
        ELSE CHOOSE m \in longest :
                \A o \in longest : m[1] < o[1] \/ (m[1] = o[1] /\ m[2] <= o[2])

\* SequenceMatcher.get_matching_blocks, summed: the longest block, then the
\* blocks to its left and to its right.
RECURSIVE MatchedChars(_, _, _, _, _, _)
MatchedChars(a, b, alo, ahi, blo, bhi) ==
    LET m == find_longest_match(a, b, alo, ahi, blo, bhi) IN
    IF m[3] = 0 THEN 0
    ELSE m[3]
         + MatchedChars(a, b, alo, m[1], blo, m[2])
         + MatchedChars(a, b, m[1] + m[3], ahi, m[2] + m[3], bhi)

\* A mutant of the ratio: the matches are counted in both strings, twice.
calculate_ratioMutant(matches, length) ==
    IF length > 0 THEN [num |-> 4 * matches, den |-> length] ELSE [num |-> 1, den |-> 1]

\* difflib's _calculate_ratio, as a fraction: 2.0 * matches / length, and 1.0
\* for two empty strings
calculate_ratio(matches, length) ==
    IF length > 0 THEN [num |-> 2 * matches, den |-> length] ELSE [num |-> 1, den |-> 1]

\* SequenceMatcher(None, a, b).ratio()
Ratio(a, b) ==
    calculate_ratio(MatchedChars(a, b, 1, Len(a) + 1, 1, Len(b) + 1), Len(a) + Len(b))

\* round(ratio * 100, 2), in hundredths.  A tie needs len(a) + len(b) to be
\* a multiple of 64, which no pair of the strings drawn here has.
Round2(ratio) == (2 * 10000 * ratio.num + ratio.den) \div (2 * ratio.den)

\* A mutant of line 450: the early return is lost.
EitherEmptyMutant(reference_normalized, attempt_normalized) == FALSE

\* Line 450: not reference_normalized or not attempt_normalized
EitherEmpty(reference_normalized, attempt_normalized) ==
    reference_normalized = <<>> \/ attempt_normalized = <<>>

calculate_similarity(reference, attempt) ==
    LET reference_normalized == normalize_text(reference)
        attempt_normalized == normalize_text(attempt)
    IN  IF EitherEmpty(reference_normalized, attempt_normalized) THEN 0
        ELSE Round2(Ratio(reference_normalized, attempt_normalized))

SimilarityIdle ==
    /\ sim_pc = "idle"
    /\ sim_reference = <<>>
    /\ sim_attempt = <<>>
    /\ sim_score = None

\* The call and its result
SimilarityApply ==
    /\ sim_pc = "input"
    /\ sim_score' = calculate_similarity(sim_reference, sim_attempt)
    /\ sim_pc' = "done"
    /\ UNCHANGED <<sim_reference, sim_attempt>>

\* ------------------------------------------------------------------------
\* synthesize_conversational
\* ------------------------------------------------------------------------

SynthLimit == 150

Marker == <<".", ".", ".">>

\* A mutant of line 227: a reply of exactly 150 words is cut too.
TooLongMutant(words) == Len(words) >= SynthLimit

\* Line 227: len(words) > 150
TooLong(words) == Len(words) > SynthLimit

\* Lines 226-228: the text that is handed to gTTS
SpokenText(text) ==
    LET words == Split(text) IN
    IF TooLong(words) THEN Join(SubSeq(words, 1, SynthLimit)) \o Marker ELSE text

SynthIdle ==
    /\ sy_pc = "idle"
    /\ sy_text = <<>>
    /\ sy_tts = <<>>
    /\ sy_saved = FALSE

\* What may become of the call: the folder cannot be made, gTTS raises, or
\* the file is written
SynthOutcomes == {"mkdir failed", "gTTS failed", "saved"}

\* The whole function
SynthesizeConversational ==
    /\ sy_pc = "input"
    /\ \E outcome \in SynthOutcomes :
        /\ sy_tts' = IF outcome = "mkdir failed" THEN <<>> ELSE <<SpokenText(sy_text)>>
        /\ sy_saved' = (outcome = "saved")
    /\ sy_pc' = "done"
    /\ UNCHANGED sy_text

\* The replies the model draws from: the words 1, 2, ... n in decimal digits,
\* `sep` between them, `lead` before and `trail` after them.
DigitChars == <<"0", "1", "2", "3", "4", "5", "6", "7", "8", "9">>

RECURSIVE Decimal(_)
Decimal(i) ==
    IF i < 10 THEN <<DigitChars[i + 1]>>
    ELSE Decimal(i \div 10) \o <<DigitChars[(i % 10) + 1]>>

\* The words lo, lo + 1, ... hi with `sep` between them
RECURSIVE NumberWords(_, _, _)
NumberWords(lo, hi, sep) ==
    IF lo > hi THEN <<>>
    ELSE IF lo = hi THEN Decimal(lo)
    ELSE LET half == (lo + hi) \div 2
         IN  NumberWords(lo, half, sep) \o sep \o NumberWords(half + 1, hi, sep)

Reply(n, sep, lead, trail) == lead \o NumberWords(1, n, sep) \o trail

ReplyLengths == (0..3) \cup ((SynthLimit - 2)..(SynthLimit + 2)) \cup {200}
ReplySeparators == {<<" ">>, <<" ", " ">>}
ReplyPaddings == {<<>>, <<" ">>}

FunctionsIdle == SimilarityIdle /\ SynthIdle

\* ------------------------------------------------------------------------
\* The user table: register and the admin's requests
\* ------------------------------------------------------------------------

\* Emails are written in lower case, so that email.lower() is the email.
DEFAULT_ADMIN_EMAIL == "coach@example.com"
Emails == {DEFAULT_ADMIN_EMAIL} \cup Users

ROLE_OPTIONS == {"admin", "user"}

\* The "role" field of a form: a role, none, or something else
RoleFields == ROLE_OPTIONS \cup {"", "guest"}

\* Lines 74-78; the hash stands for whatever password was given.
UserRecord(email, role) == [email |-> email, password_hash |-> "hash", role |-> role]

\* table[key] = value, and del table[key]
Put(table, key, value) ==
    [k \in DOMAIN table \cup {key} |-> IF k = key THEN value ELSE table[k]]
Remove(table, key) == [k \in DOMAIN table \ {key} |-> table[k]]

\* What becomes of a call of the document store: it is not made, there is no
\* client, the call raises (and the exception is logged), or it is done.
CallOutcomes == {"not called", "no client", "failed", "done"}

\* What a request works on: USERS, the users collection of the store and
\* FIRESTORE_CLIENT; `possible` tells whether the outcomes drawn for its
\* calls can happen.
Db == [users |-> USERS, store |-> store_users, client |-> FIRESTORE_CLIENT,
       possible |-> TRUE]

\* _get_firestore_client at the head of a call with outcome o
Called(db, o) ==
    [db EXCEPT !.client = IF o = "no client" THEN @ ELSE Client,
               !.possible = /\ @
                            /\ o # "not called"
                            /\ o = "no client" => db.client = None]

NotCalled(db, o) == [db EXCEPT !.possible = @ /\ o = "not called"]

_persist_user_to_firestore(db, record, o) ==
    LET called == Called(db, o) IN
    IF o = "done"
    THEN [called EXCEPT !.store = Put(@, record.email, record)]
    ELSE called

\* The document found is stored in USERS.
_fetch_user_from_firestore(db, email, o) ==
    LET called == Called(db, o) IN
    IF o = "done" /\ email \in DOMAIN called.store
    THEN [called EXCEPT !.users = Put(@, email, called.store[email])]
    ELSE called

_delete_user_from_firestore(db, email, o) ==
    LET called == Called(db, o) IN
    IF o = "done" THEN [called EXCEPT !.store = Remove(@, email)] ELSE called

\* The documents of `delivered` are read, each one replacing the record of
\* its email; the stream raises when it does not deliver them all.
_refresh_users_from_firestore(db, o, delivered) ==
    LET called == Called(db, o) IN
    IF o = "done"
    THEN [called EXCEPT !.users =
             [k \in DOMAIN called.users \cup delivered |->
                 IF k \in delivered THEN called.store[k] ELSE called.users[k]]]
    ELSE [called EXCEPT !.possible = @ /\ delivered = {}]

_store_user(db, email, role, o) ==
    _persist_user_to_firestore(
        [db EXCEPT !.users = Put(@, email, UserRecord(email, role))],
        UserRecord(email, role), o)

\* USERS.get(email.lower()) or _fetch_user_from_firestore(email): the record
\* is found when it is in the table afterwards.
GetOrFetch(db, email, o) ==
    IF email \in DOMAIN db.users THEN NotCalled(db, o)
    ELSE _fetch_user_from_firestore(db, email, o)

_count_admins(users) == Cardinality({k \in DOMAIN users : users[k].role = "admin"})

\* load_user and _require_admin: the user of the session is looked up, and
\* is let in when their role is admin.
RequireAdmin(db, actor, o) ==
    LET loaded == GetOrFetch(db, actor, o)
    IN  [db |-> loaded,
         admin |-> actor \in DOMAIN loaded.users /\ loaded.users[actor].role = "admin"]

\* Lines 586-621 of register and 674-703 of _admin_create_user; form_ok
\* tells whether the password fields pass.
CreateUser(db, email, role, form_ok, o1, o2, success) ==
    LET looked == GetOrFetch(db, email, o1)
        errors == email \in DOMAIN looked.users \/ ~form_ok \/ role \notin ROLE_OPTIONS
    IN  IF errors
        THEN [db |-> NotCalled(looked, o2), flash |-> "error"]
        ELSE [db |-> _store_user(looked, email, role, o2), flash |-> success]

register(db, email, form_ok, o1, o2) ==
    CreateUser(db, email, "user", form_ok, o1, o2, "Registration successful!")

_admin_create_user(db, email, role_field, form_ok, o1, o2) ==
    CreateUser(db, email, IF role_field = "" THEN "user" ELSE role_field, form_ok,
               o1, o2, "User created successfully.")

\* Lines 747 and 787: _count_admins() <= 1
LastAdmin(users) == _count_admins(users) <= 1

\* Lines 707-749 of _admin_update_user: up to the decision to update
UpdateCheck(db, original_email, new_email, role_field, form_ok, o1, o2) ==
    LET looked == GetOrFetch(db, original_email, o1) IN
    IF original_email \notin DOMAIN looked.users
    THEN [db |-> NotCalled(looked, o2), flash |-> "User not found."]
    ELSE
    LET record == looked.users[original_email]
        role == IF role_field = "" THEN record.role ELSE role_field
        checked == IF new_email # original_email THEN GetOrFetch(looked, new_email, o2)
                   ELSE NotCalled(looked, o2)
        errors == \/ new_email # original_email /\ new_email \in DOMAIN checked.users
                  \/ role \notin ROLE_OPTIONS
                  \/ ~form_ok
    IN  IF errors THEN [db |-> checked, flash |-> "error"]
        ELSE IF record.role = "admin" /\ role # "admin" /\ LastAdmin(checked.users)
        THEN [db |-> checked, flash |-> "At least one admin must remain."]
        ELSE [db |-> checked, flash |-> "",
              req |-> [op |-> "update", record |-> record,
                       original_email |-> original_email, new_email |-> new_email,
                       role |-> role]]

\* Lines 751-770 of _admin_update_user
UpdateApply(db, req, o1, o2) ==
    LET new_record == [req.record EXCEPT !.email = req.new_email, !.role = req.role]
        updated == [db EXCEPT !.users =
                       Put(Remove(@, req.original_email), req.new_email, new_record)]
        persisted == _persist_user_to_firestore(updated, new_record, o1)
    IN  [db |-> IF req.new_email # req.original_email
                THEN _delete_user_from_firestore(persisted, req.original_email, o2)
                ELSE NotCalled(persisted, o2),
         flash |-> "User updated successfully."]

\* Lines 774-789 of _admin_delete_user: up to the decision to delete
DeleteCheck(db, actor, email, o) ==
    LET looked == GetOrFetch(db, email, o) IN
    IF email \notin DOMAIN looked.users
    THEN [db |-> looked, flash |-> "User not found."]
    ELSE IF actor = email
    THEN [db |-> looked, flash |-> "You cannot delete your own account while signed in."]
    ELSE IF looked.users[email].role = "admin" /\ LastAdmin(looked.users)
    THEN [db |-> looked, flash |-> "At least one admin must remain."]
    ELSE [db |-> looked, flash |-> "", req |-> [op |-> "delete", email |-> email]]

\* Lines 791-795 of _admin_delete_user
DeleteApply(db, req, o) ==
    [db |-> _delete_user_from_firestore([db EXCEPT !.users = Remove(@, req.email)],
                                        req.email, o),
     flash |-> "User deleted."]

\* The request of thread t goes on, or ends, with the tables of `result`.
Commit(t, result) ==
    /\ result.db.possible
    /\ USERS' = result.db.users
    /\ store_users' = result.db.store
    /\ FIRESTORE_CLIENT' = result.db.client
    /\ th_flash' = [th_flash EXCEPT ![t] = result.flash]
    /\ IF "req" \in DOMAIN result
       THEN /\ th_pc' = [th_pc EXCEPT ![t] = "apply"]
            /\ th_req' = [th_req EXCEPT ![t] = result.req]
       ELSE /\ th_pc' = [th_pc EXCEPT ![t] = "idle"]
            /\ th_req' = [th_req EXCEPT ![t] = None]
    /\ UNCHANGED <<PROGRESS_CACHE, store_sessions, saved, save_raised>>

\* POST /register of a visitor who is not logged in
Register(t, outs) ==
    /\ th_pc[t] = "idle"
    /\ \E email \in Emails, form_ok \in BOOLEAN, o1 \in outs, o2 \in outs :
        Commit(t, register(Db, email, form_ok, o1, o2))

\* A request to /admin/users of a user who is not an admin: 403
Forbidden(t, outs) ==
    /\ th_pc[t] = "idle"
    /\ \E actor \in Emails, o \in outs :
        LET let_in == RequireAdmin(Db, actor, o) IN
        /\ ~let_in.admin
        /\ Commit(t, [db |-> let_in.db, flash |-> "403"])

\* GET /admin/users without a selected user: the table is refreshed.
AdminList(t, outs) ==
    /\ th_pc[t] = "idle"
    /\ \E actor \in Emails, o0 \in outs :
        LET let_in == RequireAdmin(Db, actor, o0) IN
        /\ let_in.admin /\ let_in.db.possible
        /\ \E o1 \in outs, delivered \in SUBSET DOMAIN store_users :
            Commit(t, [db |-> _refresh_users_from_firestore(let_in.db, o1, delivered),
                       flash |-> IF o1 = "done" /\ delivered # DOMAIN store_users
                                 THEN "500" ELSE "users"])

\* POST /admin/users, action=create
AdminCreate(t, outs) ==
    /\ th_pc[t] = "idle"
    /\ \E actor \in Emails, o0 \in outs :
        LET let_in == RequireAdmin(Db, actor, o0) IN
        /\ let_in.admin /\ let_in.db.possible
        /\ \E email \in Emails, role_field \in RoleFields, form_ok \in BOOLEAN,
              o1 \in outs, o2 \in outs :
            Commit(t, _admin_create_user(let_in.db, email, role_field, form_ok, o1, o2))

\* POST /admin/users, action=update, up to line 749
AU_Check(t, outs) ==
    /\ th_pc[t] = "idle"
    /\ \E actor \in Emails, o0 \in outs :
        LET let_in == RequireAdmin(Db, actor, o0) IN
        /\ let_in.admin /\ let_in.db.possible
        /\ \E original_email \in Emails, new_email \in Emails, role_field \in RoleFields,
              form_ok \in BOOLEAN, o1 \in outs, o2 \in outs :
            Commit(t, UpdateCheck(let_in.db, original_email, new_email, role_field,
                                  form_ok, o1, o2))

\* POST /admin/users, action=update, from line 751
AU_Apply(t, outs) ==
    /\ th_pc[t] = "apply"
    /\ th_req[t].op = "update"
    /\ \E o1 \in outs, o2 \in outs : Commit(t, UpdateApply(Db, th_req[t], o1, o2))

\* POST /admin/users, action=delete, up to line 789
AD_Check(t, outs) ==
    /\ th_pc[t] = "idle"
    /\ \E actor \in Emails, o0 \in outs :
        LET let_in == RequireAdmin(Db, actor, o0) IN
        /\ let_in.admin /\ let_in.db.possible
        /\ \E email \in Emails, o1 \in outs :
            Commit(t, DeleteCheck(let_in.db, actor, email, o1))

\* POST /admin/users, action=delete, from line 791
AD_Apply(t, outs) ==
    /\ th_pc[t] = "apply"
    /\ th_req[t].op = "delete"
    /\ \E o \in outs : Commit(t, DeleteApply(Db, th_req[t], o))

\* Line 258: the process has started and stored the bootstrap admin.
AdminIdle ==
    /\ USERS = [k \in {DEFAULT_ADMIN_EMAIL} |-> UserRecord(DEFAULT_ADMIN_EMAIL, "admin")]
    /\ store_users = [k \in {} |-> None]
    /\ th_pc = [t \in Threads |-> "idle"]
    /\ th_req = [t \in Threads |-> None]
    /\ th_flash = [t \in Threads |-> ""]

AppIdle == FetchIdle /\ AdminIdle

\* ------------------------------------------------------------------------
\* Specifications
\* ------------------------------------------------------------------------

\* ---- call_gemini_api called on its own, with any retries and backoff
Backoffs == {1, 2, 3}

InitGemini ==
    /\ g_pc = "attempt"
    /\ g_retries \in 0..DefaultRetries
    /\ g_backoff \in Backoffs
    /\ g_messages = <<>>
    /\ g_attempt = 1
    /\ g_log = <<>>
    /\ g_sleeps = <<>>
    /\ g_last_exc = None
    /\ g_result = None
    /\ TruncateIdle /\ ChatIdle /\ CleanupIdle /\ ProgressIdle /\ TranscribeIdle /\ FunctionsIdle /\ AppIdle

NextGemini ==
    \/ GeminiAttempt /\ UNCHANGED <<tvars, pvars, clvars, prvars, trvars, fnvars, appvars>>
    \/ GeminiLoopEnd /\ UNCHANGED <<tvars, pvars, clvars, prvars, trvars, fnvars, appvars>>

SpecGemini == InitGemini /\ [][NextGemini]_vars

\* ---- _truncate_history called on its own, on any list of turns
MaxTurns == 3

TruncAuthors == {"user", "assistant"}
TruncTexts == {Text(0, 0), Text(1, 0), Text(1500, 0), Text(2999, 1), Text(3001, 0)}

TurnLists ==
    UNION {[1..n -> {Turn(a, t) : a \in TruncAuthors, t \in TruncTexts}] : n \in 0..MaxTurns}

InitTruncate ==
    /\ t_pc = "input"
    /\ t_in \in TurnLists
    /\ t_out = <<>>
    /\ GeminiIdle /\ ChatIdle /\ CleanupIdle /\ ProgressIdle /\ TranscribeIdle /\ FunctionsIdle /\ AppIdle

NextTruncate == TruncateApply /\ UNCHANGED <<gvars, pvars, clvars, prvars, trvars, fnvars, appvars>>

SpecTruncate == InitTruncate /\ [][NextTruncate]_vars

\* ---- one chat session: process_audio requests, one after the other
InitChat ==
    GeminiIdle /\ TruncateIdle /\ ChatIdle /\ CleanupIdle /\ ProgressIdle /\ TranscribeIdle /\ FunctionsIdle /\ AppIdle

NextChat ==
    \/ PA_Begin /\ UNCHANGED <<tvars, clvars, prvars, trvars, fnvars, appvars>>
    \/ PA_Transcode /\ UNCHANGED <<tvars, clvars, prvars, trvars, fnvars, appvars>>
    \/ PA_Recognize /\ UNCHANGED <<tvars, clvars, prvars, trvars, fnvars, appvars>>
    \/ GeminiAttempt /\ UNCHANGED <<tvars, pvars, clvars, prvars, trvars, fnvars, appvars>>
    \/ PA_Reply /\ UNCHANGED <<tvars, clvars, prvars, trvars, fnvars, appvars>>
    \/ PA_Fail /\ UNCHANGED <<tvars, clvars, prvars, trvars, fnvars, appvars>>

SpecChat == InitChat /\ [][NextChat]_vars

\* ---- one cleanup_audio request with any filename, the reply file x.mp3
\* ---- being there or already deleted
InitCleanup ==
    /\ fs \in {InitialFiles, InitialFiles \ {AudioFile(XMp3)}}
    /\ cl_filename \in Filenames
    /\ cl_response = None
    /\ cl_deleted = {}
    /\ GeminiIdle /\ TruncateIdle /\ ChatIdle /\ ProgressIdle /\ TranscribeIdle /\ FunctionsIdle /\ AppIdle

NextCleanup == CleanupAudio /\ UNCHANGED <<gvars, tvars, pvars, prvars, trvars, fnvars, appvars>>

SpecCleanup == InitCleanup /\ [][NextCleanup]_vars

\* ---- save_progress_entry called on its own, again and again
MaxSaves == 102
MaxStoreSaves == 3

TotalSaved == Len(saved["ana@example.com"]) + Len(saved["raj@example.com"])

\* A user is saved for up to MaxSaves times; the document store takes part
\* in the first MaxStoreSaves calls only.
SaveProgressEntry ==
    \E user_id \in Users \cup {""} :
        /\ user_id # "" => Len(saved[user_id]) < MaxSaves
        /\ FIRESTORE_CLIENT # None => TotalSaved < MaxStoreSaves
        /\ \E client \in ClientOutcomes, written \in BOOLEAN :
            /\ client # None => TotalSaved < MaxStoreSaves
            /\ client = None => written
            /\ save_progress_entry(user_id, Target, "she sells seashells", 70,
                                   client, written)

InitProgress ==
    /\ \E client \in {None, Client} : ProgressStart(client)
    /\ GeminiIdle /\ TruncateIdle /\ ChatIdle /\ CleanupIdle /\ TranscribeIdle /\ FunctionsIdle /\ AppIdle

NextProgress == SaveProgressEntry /\ UNCHANGED <<gvars, tvars, pvars, clvars, trvars, fnvars, appvars>>

SpecProgress == InitProgress /\ [][NextProgress]_vars

\* ---- /transcribe requests on two request threads
InitTranscribe ==
    /\ \E client \in {None, Client} : ProgressStart(client)
    /\ GeminiIdle /\ TruncateIdle /\ ChatIdle /\ CleanupIdle /\ TranscribeIdle /\ FunctionsIdle /\ AppIdle

NextTranscribe ==
    \E t \in Threads :
        \/ TR_Begin(t) /\ UNCHANGED <<gvars, tvars, pvars, clvars, fnvars, appvars>>
        \/ LM_Check(t) /\ UNCHANGED <<gvars, tvars, pvars, clvars, fnvars, appvars>>
        \/ LM_Load(t) /\ UNCHANGED <<gvars, tvars, pvars, clvars, fnvars, appvars>>
        \/ LM_Store(t) /\ UNCHANGED <<gvars, tvars, pvars, clvars, fnvars, appvars>>
        \/ LM_Return(t) /\ UNCHANGED <<gvars, tvars, pvars, clvars, fnvars, appvars>>
        \/ TR_Transcribe(t) /\ UNCHANGED <<gvars, tvars, pvars, clvars, fnvars, appvars>>

SpecTranscribe == InitTranscribe /\ [][NextTranscribe]_vars

\* ---- calculate_similarity called on its own, on any two short strings
SimChars == {"a", "B", "7", " ", "!"}
MaxStrLen == 3

SimStrings == UNION {[1..n -> SimChars] : n \in 0..MaxStrLen}

InitSimilarity ==
    /\ sim_pc = "input"
    /\ sim_reference \in SimStrings
    /\ sim_attempt \in SimStrings
    /\ sim_score = None
    /\ SynthIdle /\ AppIdle
    /\ GeminiIdle /\ TruncateIdle /\ ChatIdle /\ CleanupIdle /\ ProgressIdle /\ TranscribeIdle

NextSimilarity ==
    SimilarityApply /\ UNCHANGED <<gvars, tvars, pvars, clvars, prvars, trvars, syvars, appvars>>

SpecSimilarity == InitSimilarity /\ [][NextSimilarity]_vars

\* ---- synthesize_conversational called on its own, on replies around the limit
InitSynth ==
    /\ sy_pc = "input"
    /\ \E n \in ReplyLengths, sep \in ReplySeparators, lead \in ReplyPaddings,
          trail \in ReplyPaddings :
            sy_text = Reply(n, sep, lead, trail)
    /\ sy_tts = <<>>
    /\ sy_saved = FALSE
    /\ SimilarityIdle /\ AppIdle
    /\ GeminiIdle /\ TruncateIdle /\ ChatIdle /\ CleanupIdle /\ ProgressIdle /\ TranscribeIdle

NextSynth ==
    SynthesizeConversational
    /\ UNCHANGED <<gvars, tvars, pvars, clvars, prvars, trvars, simvars, appvars>>

SpecSynth == InitSynth /\ [][NextSynth]_vars

\* ---- the progress of two users saved and read, one call at a time
MaxReadSaves == 4

\* The default limit, the limit of the admin's audit view, and small ones
FetchLimits == {1, 2, 25, 50}

\* A save; the list the previous fetch returned is gone by then.
SaveBeforeFetch ==
    \E user_id \in Users, client \in ClientOutcomes, written \in BOOLEAN :
        /\ TotalSaved < MaxReadSaves
        /\ client = None => written
        /\ save_progress_entry(user_id, Target, "she sells seashells", 70,
                               client, written)
        /\ fetched' = None

FetchProgressEntries ==
    \E user_id \in Users, limit \in FetchLimits, client \in ClientOutcomes :
        \E streamed \in 0..Len(SessionsQuery(user_id, limit)) :
            fetch_progress_entries(user_id, limit, client, streamed)

InitReadProgress ==
    /\ \E client \in {None, Client} : ProgressStart(client)
    /\ FetchIdle /\ AdminIdle
    /\ GeminiIdle /\ TruncateIdle /\ ChatIdle /\ CleanupIdle /\ TranscribeIdle
    /\ FunctionsIdle

NextReadProgress ==
    \/ SaveBeforeFetch /\ UNCHANGED <<gvars, tvars, pvars, clvars, trvars, fnvars, avars>>
    \/ FetchProgressEntries /\ UNCHANGED <<gvars, tvars, pvars, clvars, trvars, fnvars, avars>>

SpecReadProgress == InitReadProgress /\ [][NextReadProgress]_vars

\* ---- register and the admin's requests, one request at a time, with a
\* ---- document store whose calls may fail
SerialThread == "t1"

\* The bootstrap admin has been written to the store, or has not.
InitAdmin ==
    /\ \E client \in {None, Client} : ProgressStart(client)
    /\ USERS = [k \in {DEFAULT_ADMIN_EMAIL} |-> UserRecord(DEFAULT_ADMIN_EMAIL, "admin")]
    /\ store_users \in {[k \in {} |-> None], USERS}
    /\ FIRESTORE_CLIENT = None => store_users = [k \in {} |-> None]
    /\ th_pc = [t \in Threads |-> "idle"]
    /\ th_req = [t \in Threads |-> None]
    /\ th_flash = [t \in Threads |-> ""]
    /\ FetchIdle
    /\ GeminiIdle /\ TruncateIdle /\ ChatIdle /\ CleanupIdle /\ TranscribeIdle
    /\ FunctionsIdle

NextAdmin ==
    \/ Register(SerialThread, CallOutcomes)
         /\ UNCHANGED <<gvars, tvars, pvars, clvars, trvars, fnvars, fvars>>
    \/ Forbidden(SerialThread, CallOutcomes)
         /\ UNCHANGED <<gvars, tvars, pvars, clvars, trvars, fnvars, fvars>>
    \/ AdminList(SerialThread, CallOutcomes)
         /\ UNCHANGED <<gvars, tvars, pvars, clvars, trvars, fnvars, fvars>>
    \/ AdminCreate(SerialThread, CallOutcomes)
         /\ UNCHANGED <<gvars, tvars, pvars, clvars, trvars, fnvars, fvars>>
    \/ AU_Check(SerialThread, CallOutcomes)
         /\ UNCHANGED <<gvars, tvars, pvars, clvars, trvars, fnvars, fvars>>
    \/ AU_Apply(SerialThread, CallOutcomes)
         /\ UNCHANGED <<gvars, tvars, pvars, clvars, trvars, fnvars, fvars>>
    \/ AD_Check(SerialThread, CallOutcomes)
         /\ UNCHANGED <<gvars, tvars, pvars, clvars, trvars, fnvars, fvars>>
    \/ AD_Apply(SerialThread, CallOutcomes)
         /\ UNCHANGED <<gvars, tvars, pvars, clvars, trvars, fnvars, fvars>>

SpecAdmin == InitAdmin /\ [][NextAdmin]_vars

\* ---- the admin's requests on two request threads, without a document
\* ---- store (no credentials are configured)
MemoryOnly == {"not called", "no client"}

InitAdminRace ==
    /\ ProgressStart(None)
    /\ AdminIdle /\ FetchIdle
    /\ GeminiIdle /\ TruncateIdle /\ ChatIdle /\ CleanupIdle /\ TranscribeIdle
    /\ FunctionsIdle

NextAdminRace ==
    \E t \in Threads :
        \/ AdminCreate(t, MemoryOnly)
             /\ UNCHANGED <<gvars, tvars, pvars, clvars, trvars, fnvars, fvars>>
        \/ AU_Check(t, MemoryOnly)
             /\ UNCHANGED <<gvars, tvars, pvars, clvars, trvars, fnvars, fvars>>
        \/ AU_Apply(t, MemoryOnly)
             /\ UNCHANGED <<gvars, tvars, pvars, clvars, trvars, fnvars, fvars>>
        \/ AD_Check(t, MemoryOnly)
             /\ UNCHANGED <<gvars, tvars, pvars, clvars, trvars, fnvars, fvars>>
        \/ AD_Apply(t, MemoryOnly)
             /\ UNCHANGED <<gvars, tvars, pvars, clvars, trvars, fnvars, fvars>>

SpecAdminRace == InitAdminRace /\ [][NextAdminRace]_vars

\* ------------------------------------------------------------------------
\* Claims
\* ------------------------------------------------------------------------

GeminiDone == g_pc \in {"returned", "raised"}

Http503 == [kind |-> "http", status |-> TransientStatus]

\* The first k requests failed with HTTP 503 and request k + 1 succeeded.
FailedThenSucceeded(k) ==
    /\ g_pc = "returned"
    /\ Len(g_log) = k + 1
    /\ \A i \in 1..k : g_log[i] = Http503

\* C1: with the default 3 attempts, when the first k attempts (k = 1 or 2)
\* fail with HTTP 503 and the next one succeeds, the call returns the reply
\* of the successful attempt after exactly k sleeps, the i-th one lasting
\* backoff * 2^(i-1) seconds.
C1_RetryThenSuccess ==
    \A k \in 1..2 :
        (g_retries = DefaultRetries /\ FailedThenSucceeded(k)) =>
            /\ g_result = [kind |-> "return", text |-> g_log[k + 1].text]
            /\ g_sleeps = [i \in 1..k |-> g_backoff * (2 ^ (i - 1))]

C1_Witness ==
    /\ g_retries = DefaultRetries
    /\ g_backoff = 3
    /\ FailedThenSucceeded(2)
    /\ g_sleeps = <<3, 6>>

\* C2: the call makes at most 3 requests and at most 2 sleeps, each request
\* before the last one followed by one sleep and the last one by none; when
\* it raises after a request, it raises the error of the last request made.
C2_BoundedAttempts ==
    /\ Len(g_log) <= DefaultRetries
    /\ Len(g_sleeps) <= DefaultRetries - 1
    /\ g_pc = "attempt" => Len(g_log) = g_attempt - 1 /\ Len(g_sleeps) = Len(g_log)
    /\ (GeminiDone /\ Len(g_log) > 0) => Len(g_sleeps) = Len(g_log) - 1
    /\ (g_pc = "raised" /\ Len(g_log) > 0) =>
           g_result = [kind |-> "raise", error |-> ErrorOf(g_log[Len(g_log)])]

C2_Witness ==
    /\ g_pc = "raised"
    /\ Len(g_log) = DefaultRetries
    /\ Len(g_sleeps) = DefaultRetries - 1
    /\ g_log[1] = Http503
    /\ g_log[2] = [kind |-> "exc"]
    /\ g_log[3] = [kind |-> "http", status |-> 500]

PA_Completed == pa_pc = "done"

\* C3: once a request has completed, with a success or an error response, no
\* temporary audio file (uploaded container, transcoded waveform) is left.
C3_NoTempFileLeft == PA_Completed => tmp_files = {}


\* Total word count of a list of turns
RECURSIVE TotalWords(_)
TotalWords(turns) ==
    IF turns = <<>> THEN 0
    ELSE WordCount(Head(turns).text) + TotalWords(Tail(turns))

Suffix(turns, k) == SubSeq(turns, k, Len(turns))

\* C4: for a non-empty list, the result is the longest suffix of the list
\* whose total word count is at most 3000, in the list's order; when the most
\* recent turn alone exceeds 3000 words, it is that one turn.
C4_LongestSuffixWithinBudget ==
    (t_pc = "done" /\ t_in # <<>>) =>
        LET n == Len(t_in) IN
        IF WordCount(t_in[n].text) > WordBudget
        THEN t_out = <<t_in[n]>>
        ELSE \E k \in 1..n :
                /\ t_out = Suffix(t_in, k)
                /\ TotalWords(t_out) <= WordBudget
                /\ \A j \in 1..(k - 1) : TotalWords(Suffix(t_in, j)) > WordBudget

\* An over-budget most recent turn is kept alone, older turns being dropped.
C4_Witness ==
    /\ t_pc = "done"
    /\ Len(t_in) = 3
    /\ WordCount(t_in[2].text) = 1
    /\ WordCount(t_in[3].text) > WordBudget
    /\ t_out = <<t_in[3]>>


\* C5: a response without candidates is fatal: the request that got it is the
\* last one, the call raises its RuntimeError, and no sleep follows it.
C5_NoCandidatesFatal ==
    \A i \in 1..Len(g_log) :
        NoCandidates(g_log[i]) =>
            /\ i = Len(g_log)
            /\ g_pc = "raised"
            /\ g_result = [kind |-> "raise", error |-> ErrorOf(g_log[i])]
            /\ Len(g_sleeps) = i - 1


HasDirectoryPart(name) == \E i \in 1..Len(name) : name[i] = "/"

\* What the claim asks of the last request, `name` being the filename it
\* is held to have been given.
CleanupValidates(name) ==
    /\ (HasDirectoryPart(name) \/ ~EndsWith(name, Mp3Suffix)) =>
           cl_response.status = 400 /\ cl_deleted = {}
    /\ cl_response.status = 200 =>
           /\ cl_deleted \subseteq {AudioFile(name)}
           /\ fs \cap {AudioFile(name)} = {}
    /\ (~HasDirectoryPart(name) /\ EndsWith(name, Mp3Suffix)) =>
           cl_response.status = 200

\* C6 as stated: a filename with a directory part or not ending in .mp3 is
\* answered 400 and deletes nothing; an accepted request deletes at most the
\* file of exactly that name in the reply-audio folder, and is answered ok
\* whether or not the file exists.
C6_FilenameValidated == cl_response # None => CleanupValidates(cl_filename)

\* C6 as amended: the same, of the filename with the whitespace around it
\* stripped.
C6_StrippedFilenameValidated ==
    cl_response # None => CleanupValidates(Strip(cl_filename))

\* " x.mp3" was accepted and deleted the reply file x.mp3.
C6_Witness ==
    /\ cl_filename = <<" ">> \o XMp3
    /\ cl_response # None
    /\ cl_response.status = 200
    /\ cl_deleted = {AudioFile(XMp3)}
    /\ fs = InitialFiles \ {AudioFile(XMp3)}


\* The last n elements of a list, or all of it
LastN(list, n) ==
    IF Len(list) > n THEN SubSeq(list, Len(list) - n + 1, Len(list)) ELSE list

\* C7: the cache of each user holds at most 100 entries, which are the
\* entries most recently saved for that user, in the order they were saved;
\* the entries of one user are never in the cache of another.
C7_CacheHoldsMostRecent ==
    /\ DOMAIN PROGRESS_CACHE \subseteq Users
    /\ \A u \in Users :
        /\ Len(CachedEntries(u)) <= ProgressCap
        /\ CachedEntries(u) = LastN(saved[u], ProgressCap)

\* A user saved for 102 times holds entries 3..102, another one holds one.
C7_Witness ==
    /\ Len(saved["ana@example.com"]) = ProgressCap + 2
    /\ Len(CachedEntries("ana@example.com")) = ProgressCap
    /\ CachedEntries("ana@example.com")[1].id = <<"ana@example.com", 3>>
    /\ Len(CachedEntries("raj@example.com")) = 1

\* C8: when the write of the entry to the document store fails, the save
\* does not raise, the entry is in the user's cache, and the request answers
\* 200 with the transcript and the score.
C8_WriteFailureSwallowed ==
    /\ save_raised = FALSE
    /\ \A t \in Threads :
        (tr_pc[t] = "done" /\ tr_written[t] = "failed") =>
            /\ tr_response[t].status = 200
            /\ \E r \in Transcriptions :
                /\ tr_response[t].transcript = r.transcript
                /\ tr_response[t].score = r.score
            /\ \E i \in 1..Len(CachedEntries(tr_user[t])) :
                /\ CachedEntries(tr_user[t])[i].id = tr_entry[t]
                /\ CachedEntries(tr_user[t])[i].transcript = tr_response[t].transcript
                /\ CachedEntries(tr_user[t])[i].score = tr_response[t].score

\* A request whose store write failed has answered 200 with a score of 100.
C8_Witness ==
    \E t \in Threads :
        /\ tr_pc[t] = "done"
        /\ tr_written[t] = "failed"
        /\ tr_response[t].status = 200
        /\ tr_response[t].score = 100
        /\ store_sessions[tr_user[t]] = {}
        /\ Len(CachedEntries(tr_user[t])) = 1

\* C10: whisper.load_model builds at most one instance, and every load_model
\* call returns that instance.
C10_ModelLoadedOnce ==
    /\ model_loads <= 1
    /\ \A t \in Threads : tr_model[t] # None => tr_model[t] = Whisper(1)

\* C9 as stated: between requests the history stored in the session has at
\* most 3000 words in total, or is a single turn.
C9_StoredHistoryBounded ==
    pa_pc \in {"idle", "done"} =>
        TotalWords(session_history) <= WordBudget \/ Len(session_history) = 1

\* C9 as amended: every prompt submitted to the remote dialogue API has at
\* most 3000 words in total, or is a single turn.
C9_PromptBounded ==
    g_pc # "idle" =>
        TotalWords(g_messages) <= WordBudget \/ Len(g_messages) = 1

\* A prompt that left out older turns of a stored history over the budget.
C9_Witness ==
    /\ g_pc = "attempt"
    /\ Len(g_log) = 1
    /\ TotalWords(session_history) > WordBudget
    /\ Len(g_messages) > 1
    /\ Len(g_messages) < Len(session_history)

\* The string has no character of [a-z0-9] once it is lowercased.
NoWordChar(str) == \A i \in 1..Len(str) : Lower(str[i]) \notin WordChars

\* C11: when the reference or the attempt has no character of [a-z0-9] after
\* lowercasing, so that its normalized form is empty, the score is 0.0.
C11_EmptyScoresZero ==
    sim_pc = "done" =>
        ((NoWordChar(sim_reference) \/ NoWordChar(sim_attempt)) => sim_score = 0)

\* Two strings of punctuation and whitespace only score 0.
C11_Witness ==
    /\ sim_pc = "done"
    /\ sim_reference = <<"!", " ">>
    /\ sim_attempt = <<" ", "!", "!">>
    /\ sim_score = 0

\* C12 as stated: the score is in [0, 100], and it is 100.0 whenever the
\* normalized reference and the normalized attempt are identical.
C12_IdenticalScoresFull ==
    sim_pc = "done" =>
        /\ sim_score >= 0 /\ sim_score <= 10000
        /\ normalize_text(sim_reference) = normalize_text(sim_attempt) =>
               sim_score = 10000

\* C12 as amended: the score is in [0, 100], and it is 100.0 whenever the
\* normalized reference and the normalized attempt are identical and not
\* empty.
C12_IdenticalNonEmptyScoresFull ==
    sim_pc = "done" =>
        /\ sim_score >= 0 /\ sim_score <= 10000
        /\ (/\ normalize_text(sim_reference) = normalize_text(sim_attempt)
            /\ ~NoWordChar(sim_reference)) =>
               sim_score = 10000

\* "a!B" and "a  B" both normalize to "a b" and score 100.
C12_Witness ==
    /\ sim_pc = "done"
    /\ sim_reference = <<"a", "!", "B">>
    /\ sim_attempt = <<"a", " ", "B">>
    /\ sim_score = 10000

\* C13: the text handed to the text-to-speech engine is the reply unchanged
\* when it has at most 150 words, and otherwise its first 150 words joined by
\* single spaces and followed by "..."; of a 200-word reply, 150 words and
\* the marker.
C13_SpokenTextTruncated ==
    \A n \in ReplyLengths, sep \in ReplySeparators, lead \in ReplyPaddings,
       trail \in ReplyPaddings :
        (sy_tts # <<>> /\ sy_text = Reply(n, sep, lead, trail)) =>
            sy_tts = <<IF n <= 150 THEN sy_text
                       ELSE Reply(150, <<" ">>, <<>>, <<>>) \o Marker>>

\* A padded 200-word reply with double spaces was cut to 150 words.
C13_Witness ==
    /\ sy_pc = "done"
    /\ sy_saved
    /\ sy_text = Reply(200, <<" ", " ">>, <<" ">>, <<" ">>)
    /\ sy_tts = <<Reply(150, <<" ">>, <<>>, <<>>) \o Marker>>
    /\ Len(sy_tts[1]) = 9 + 2 * 90 + 3 * 51 + 149 + 3

\* C14: an HTTP error is followed by another request only when its status
\* is 503; with any other status the request that got it is the last one,
\* the call raises that HTTPError, and no sleep follows the request, whatever
\* attempts remain.
C14_OnlyTransientHttpRetried ==
    \A i \in 1..Len(g_log) :
        (g_log[i].kind = "http" /\ g_log[i].status # 503) =>
            /\ i = Len(g_log)
            /\ g_pc = "raised"
            /\ g_result = [kind |-> "raise",
                           error |-> [type |-> "HTTPError", status |-> g_log[i].status]]
            /\ Len(g_sleeps) = i - 1

\* With three attempts allowed, the first request got HTTP 500 and ended
\* the call.
C14_Witness ==
    /\ g_retries = DefaultRetries
    /\ g_pc = "raised"
    /\ g_log = <<[kind |-> "http", status |-> 500]>>
    /\ g_sleeps = <<>>

\* C15: every prompt submitted to the remote dialogue API has the system
\* instruction as its first turn.
C15_SystemTurnFirst ==
    g_pc # "idle" => (g_messages # <<>> /\ g_messages[1] = system_msg)

\* C17: between requests the stored history is a sequence of user/assistant
\* pairs: the turns at odd positions are the user's, each followed by the
\* assistant's turn.
C17_HistoryIsPairs ==
    pa_pc \in {"idle", "done"} =>
        /\ Len(session_history) % 2 = 0
        /\ \A i \in 1..Len(session_history) :
            session_history[i].author = IF i % 2 = 1 THEN "user" ELSE "assistant"

\* C18: a fetch for a user returns every entry saved for that user that has
\* fewer than `limit` newer entries, whether or not its write to the document
\* store succeeded.
C18_ReadYourWrites ==
    fetched # None =>
        LET mine == saved[fetched.user_id] IN
        \A i \in 1..Len(mine) :
            Len(mine) - i < fetched.limit =>
                \E k \in 1..Len(fetched.entries) : fetched.entries[k].id = mine[i].id

\* C16: with requests executed one at a time, the user table always holds
\* at least one record whose role is admin.
C16_AdminRemains == _count_admins(USERS) >= 1

\* C19: with requests running concurrently, the user table never holds no
\* admin: some record of it has the role admin.
C19_AdminRemainsUnderRaces == \E k \in DOMAIN USERS : USERS[k].role = "admin"

====
